---- MODULE Spec2Model ----
(***************************************************************************)
(* Model of request-vacumer: the delayed-message scheduler               *)
(* (DelayedMessageService, monitoring/delayed-message.service.ts), the     *)
(* poller (ChatPollingService), the event monitor (ChatMonitorService)     *)
(* and the keyword filter (MessageFilterService).                          *)
(*                                                                         *)
(* The services run on the single-threaded Node event loop: a handler runs *)
(* to its next `await` without interruption, so every action below is one  *)
(* synchronous run of the code between two suspension points.  Timers are  *)
(* the event loop's timers: an armed timer fires at or after its due time. *)
(***************************************************************************)
EXTENDS Integers, Sequences, FiniteSets, TLC

\* ------------------------------------------------------------------ bounds
MaxTasks == 2          \* scheduleDelayedMessage calls in one run
MaxClock == 1          \* minutes of wall-clock time the run covers
MaxMsgs == 2           \* messages posted to the target channels in one run
MaxStarts == 1         \* startPolling calls that get past their guard
MaxMonitorStarts == 2  \* startMonitoring calls that get past their guard
MaxCycles == 2         \* poll cycles that get past their guard
MaxEvents == 2         \* update events the client delivers

\* ------------------------------------------------------- program constants
MaxAttempts == 3       \* maxAttempts: 3 in the task literal
RetryDelayMinutes == 5 \* scheduleRetry(taskId, 5, logChatId)
MsPerMinute == 60 * 1000
MESSAGES_LIMIT == 10       \* private readonly MESSAGES_LIMIT
MaxReadyChecks == 60       \* while (!isReady() && attempts < 60)

TaskIds == 1..MaxTasks
Delays == {0, 1}                 \* delayMinutes values the callers pass
NoLog == "(none)"                \* logChatId undefined or ''
LogChats == {NoLog, "LOG"}
Users == {"S1"}

\* ----------------------------------------------------------- configuration
\* What getMonitoringConfig returned: a broadcast channel and a basic group
\* as target chats, one keyword, no exclude keywords, no minimum length.
TargetChats == <<"-1001", "-7">>
Chats == {TargetChats[n] : n \in DOMAIN TargetChats}
config == [targetChats |-> TargetChats, targetChatId |-> "-500",
           keywords |-> << <<"o", "k">> >>, excludeKeywords |-> <<>>,
           minMessageLength |-> 0, delayedMessagesEnabled |-> TRUE,
           defaultDelayMinutes |-> 1, logChatId |-> "LOG"]

\* Message texts are sequences of characters; <<>> is a message without text.
Texts == {<<>>, <<"O", "k">>, <<"n", "o">>}
Dates == {1, 2}                  \* message.date values
Services == {"polling", "monitor"}
UserNames == {"S1", "Unknown User"}   \* what the sender lookup leaves in userName

\* ------------------------------------------------------ MessageFilterService
IsSpace(ch) == ch \in {" ", "\n", "\t"}

RECURSIVE TrimStart(_)
TrimStart(s) == IF s # <<>> /\ IsSpace(Head(s)) THEN TrimStart(Tail(s)) ELSE s

RECURSIVE TrimEnd(_)
TrimEnd(s) ==
  IF s # <<>> /\ IsSpace(s[Len(s)]) THEN TrimEnd(SubSeq(s, 1, Len(s) - 1)) ELSE s

trim(s) == TrimEnd(TrimStart(s))

LowerOf(ch) ==
  CASE ch = "O" -> "o" [] ch = "K" -> "k" [] ch = "N" -> "n" [] OTHER -> ch

\* Mutant of toLowerCase: the text is compared as it was typed.
toLowerCase_Identity(s) == s

toLowerCase(s) == [n \in DOMAIN s |-> LowerOf(s[n])]

includes(s, keyword) ==
  \E n \in 0..(Len(s) - Len(keyword)) : SubSeq(s, n + 1, n + Len(keyword)) = keyword

\* Mutant of FilterIncluded: the search stops at the first keyword found.
FilterIncluded_FirstOnly(keywords, text) ==
  LET found == SelectSeq(keywords, LAMBDA keyword : includes(text, keyword))
  IN  IF found = <<>> THEN <<>> ELSE <<Head(found)>>

\* array.filter(keyword => text.includes(keyword))
FilterIncluded(keywords, text) ==
  SelectSeq(keywords, LAMBDA keyword : includes(text, keyword))

\* Mutant of TooShort: a text of exactly the minimum length is rejected too.
TooShort_Inclusive(cfg, normalizedText) ==
  cfg.minMessageLength # 0 /\ Len(normalizedText) <= cfg.minMessageLength

\* config.minMessageLength && normalizedText.length < config.minMessageLength
\* (an unset minimum is 0)
TooShort(cfg, normalizedText) ==
  cfg.minMessageLength # 0 /\ Len(normalizedText) < cfg.minMessageLength

\* Mutant of ExcludeApplies: a matching keyword overrides the exclude list.
ExcludeApplies_UnlessMatched(cfg, normalizedText) ==
  /\ FilterIncluded(cfg.excludeKeywords, normalizedText) # <<>>
  /\ FilterIncluded(cfg.keywords, normalizedText) = <<>>

\* config.excludeKeywords && config.excludeKeywords.length > 0 &&
\* foundExcludeKeywords.length > 0  (an unset list is <<>>)
ExcludeApplies(cfg, normalizedText) ==
  FilterIncluded(cfg.excludeKeywords, normalizedText) # <<>>

filterMessage(messageText, cfg) ==
  IF messageText = <<>> \/ Len(trim(messageText)) = 0
  THEN [shouldForward |-> FALSE, matchedKeywords |-> <<>>, reason |-> "Empty message"]
  ELSE LET normalizedText == trim(toLowerCase(messageText))
           matchedKeywords == FilterIncluded(cfg.keywords, normalizedText)
       IN  IF TooShort(cfg, normalizedText)
           THEN [shouldForward |-> FALSE, matchedKeywords |-> <<>>,
                 reason |-> "Message too short"]
           ELSE IF ExcludeApplies(cfg, normalizedText)
           THEN [shouldForward |-> FALSE, matchedKeywords |-> <<>>,
                 reason |-> "Contains exclude keywords"]
           ELSE IF matchedKeywords # <<>>
           THEN [shouldForward |-> TRUE, matchedKeywords |-> matchedKeywords,
                 reason |-> "Matched keywords"]
           ELSE [shouldForward |-> FALSE, matchedKeywords |-> <<>>,
                 reason |-> "No keywords matched"]

VARIABLES
  now,              \* Date.now(), in milliseconds
  heap,             \* the task objects ever created, by identity (= their id)
  pendingMessages,  \* keys of the Map pendingMessages (key k maps to object heap[k])
  timers,           \* the Map timers: task id -> timer handle
  armed,            \* the event loop's armed timers: [h, id, due, log]
  nextTimer,        \* per task: how many timers setTimeout has created for it
  nextId,           \* next task id generateTaskId returns
  execs,            \* executeDelayedMessage calls suspended at an await
  scheds,           \* scheduleDelayedMessage calls suspended at their await
  returnedIds,      \* ids that scheduleDelayedMessage has returned to its caller
  sends,            \* per task: outcomes of the send attempts started ("?" = in flight)
  logChatIds,       \* per task: the logChatId its scheduleDelayedMessage call was given
  notifications,    \* per task: kinds of log notifications whose send was attempted
  cancelled,        \* ids for which cancelDelayedMessage returned true
  cancelledEarly,   \* ids cancelled after schedule returned and before the timer fired
  firedIds,         \* ids of the tasks one of whose timers has fired
  held,             \* what a client got from getTask: <<[ref, seen]>> (or <<>>)
  \* ---- ChatPollingService
  isPolling,        \* the field isPolling
  pollingInterval,  \* the field pollingInterval: an interval handle, 0 for null
  intervals,        \* the event loop's armed intervals (handles)
  processedMessages,\* the Map processedMessages: chat id -> its Set in sets, 0 = no entry
  sets,             \* the Set objects that new Set() makes, by the place making them
  channel,          \* per target chat: the messages posted to it so far, oldest first
  startCalls,       \* startPolling calls suspended at an await
  cycles,           \* pollTargetChats calls suspended at an await
  nextStart,        \* startPolling calls that got past the guard, plus one
  nextCycle,        \* poll cycles that got past the guard, plus one
  filtered,         \* per target chat: ids passed to filterMessage, in call order
  forwards,         \* per target chat: ids whose forward was sent to the target chat
  preexisting,      \* per target chat: ids in its fetch window when polling started
  invalidChats,     \* chats whose availability check failed at the latest start-up
  stopped,          \* stopPolling has returned and startPolling was not called since
  \* ---- ChatMonitorService
  isMonitoring,     \* the field isMonitoring
  handlers,         \* number of handlers registered with client.addEventHandler
  monitorStarts,    \* startMonitoring calls suspended in validateTargetChats
  handling,         \* handleNewMessage calls suspended at an await
  nextEvent,        \* events delivered so far, plus one
  nextMonitorStart, \* startMonitoring calls that got past the guard, plus one
  eventLog,         \* per delivered event: what the handlers did with it
  monitorStopped,   \* stopMonitoring has returned and startMonitoring was not called since
  \* ---- start-up
  ready,            \* TelegramClientService.isReady()
  waiters,          \* per service: its waitForClientAndStart... call
  \* ---- pure functions: the arguments of a call and what it returned
  call,             \* filterMessage: [text, cfg], the arguments
  verdict,          \* filterMessage: <<result>> of the call, <<>> before it
  permuted,         \* filterMessage: <<result>> for the same text, lists reordered
  env,              \* getMonitoringConfig: process.env, variable -> string
  loaded            \* getMonitoringConfig: <<outcome>> of the call, <<>> before it

vars == <<now, heap, pendingMessages, timers, armed, nextTimer, nextId, execs,
          scheds, returnedIds, sends, logChatIds, notifications, cancelled,
          cancelledEarly,
          firedIds, held,
          isPolling, pollingInterval, intervals, processedMessages, sets, channel,
          startCalls, cycles, nextStart, nextCycle, filtered, forwards,
          preexisting, invalidChats, stopped,
          isMonitoring, handlers, monitorStarts, handling, nextEvent,
          nextMonitorStart, eventLog, monitorStopped,
          ready, waiters,
          call, verdict, permuted, env, loaded>>

\* The variables of each service.
pollVars == <<isPolling, pollingInterval, intervals, processedMessages, sets, channel,
              startCalls, cycles, nextStart, nextCycle, filtered, forwards,
              preexisting, invalidChats, stopped>>
monitorVars == <<isMonitoring, handlers, monitorStarts, handling, nextEvent,
                 nextMonitorStart, eventLog, monitorStopped>>
startupVars == <<ready, waiters>>
pureVars == <<call, verdict, permuted, env, loaded>>
schedulerVars == <<now, heap, pendingMessages, timers, armed, nextTimer, nextId,
                   execs, scheds, returnedIds, sends, logChatIds, notifications,
                   cancelled, cancelledEarly, firedIds, held>>

\* The scheduler's own data, passed through the helpers as one store.
Store == [pendingMessages |-> pendingMessages, timers |-> timers, armed |-> armed,
          nextTimer |-> nextTimer, heap |-> heap, notifications |-> notifications]

Commit(st) ==
  /\ pendingMessages' = st.pendingMessages
  /\ timers' = st.timers
  /\ armed' = st.armed
  /\ nextTimer' = st.nextTimer
  /\ heap' = st.heap
  /\ notifications' = st.notifications

\* ---------------------------------------------------------- Map / timer API
MapDelete(m, k) == [x \in (DOMAIN m) \ {k} |-> m[x]]
MapSet(m, k, v) == [x \in (DOMAIN m) \cup {k} |-> IF x = k THEN v ELSE m[x]]

\* Mutant of SetTimer: the delay handed to setTimeout in seconds, not milliseconds.
SetTimer_Seconds(st, taskId, delayMinutes, logChatId) ==
  [st EXCEPT
     !.armed = @ \cup {[h |-> <<taskId, st.nextTimer[taskId]>>, id |-> taskId,
                        due |-> now + delayMinutes * 60, log |-> logChatId]},
     !.timers = MapSet(@, taskId, <<taskId, st.nextTimer[taskId]>>),
     !.nextTimer[taskId] = @ + 1]

\* setTimeout(() => executeDelayedMessage(taskId, logChatId), delayMinutes * 60 * 1000)
\* followed by this.timers.set(taskId, timer)
SetTimer(st, taskId, delayMinutes, logChatId) ==
  [st EXCEPT
     !.armed = @ \cup {[h |-> <<taskId, st.nextTimer[taskId]>>, id |-> taskId,
                        due |-> now + delayMinutes * 60 * 1000, log |-> logChatId]},
     !.timers = MapSet(@, taskId, <<taskId, st.nextTimer[taskId]>>),
     !.nextTimer[taskId] = @ + 1]

\* Mutant of ClearTimeout: every armed timer is disarmed.
ClearTimeout_All(st, h) == [st EXCEPT !.armed = {}]

\* clearTimeout(timer): disarms that timer if it is still armed
ClearTimeout(st, h) == [st EXCEPT !.armed = {t \in @ : t.h # h}]

\* const timer = this.timers.get(taskId); if (timer) { clearTimeout(timer); this.timers.delete(taskId); }
ClearTaskTimer(st, taskId) ==
  IF taskId \in DOMAIN st.timers
    THEN [ClearTimeout(st, st.timers[taskId]) EXCEPT !.timers = MapDelete(@, taskId)]
    ELSE st

\* sendLogMessage(logChatId, text): the notification send is attempted; its
\* failure is caught and logged, so both outcomes continue the caller alike.
sendLogMessage(st, taskId, kind) ==
  [st EXCEPT !.notifications[taskId] = Append(@, kind)]

\* Mutant of Notify: the `if (logChatId)` guard left out.
Notify_Unguarded(st, taskId, logChatId, kind) == sendLogMessage(st, taskId, kind)

\* if (logChatId) { await this.sendLogMessage(logChatId, ...) }
Notify(st, taskId, logChatId, kind) ==
  IF logChatId # NoLog THEN sendLogMessage(st, taskId, kind) ELSE st

\* ------------------------------------------------------------ query API
\* Both return the stored objects themselves (references into heap), not copies:
\* Array.from(this.pendingMessages.values()) copies the array, not the tasks.
getPendingMessages == pendingMessages
getTask(taskId) == IF taskId \in pendingMessages THEN <<taskId>> ELSE <<>>

\* generateTaskId(): `dm_${Date.now()}_${random}`, taken to be fresh in one run
generateTaskId == nextId

history == <<sends, logChatIds, cancelled, cancelledEarly, firedIds, held>>

\* --------------------------------------------------- scheduleDelayedMessage
\* Runs to `await this.sendLogMessage(...)` when a log chat is given, else to
\* its return.
scheduleDelayedMessage(targetUserId, delayMinutes, logChatId) ==
  /\ nextId <= MaxTasks                 \* the run holds MaxTasks calls
  /\ now + delayMinutes * MsPerMinute <= MaxClock * MsPerMinute
                                        \* ... each due within the time covered
  /\ LET taskId == generateTaskId
         task == [id |-> taskId,
                  targetUserId |-> targetUserId,
                  targetChatId |-> "C1",
                  message |-> "reply",
                  scheduledTime |-> now + delayMinutes * 60 * 1000,
                  originalMessage |-> "urgent",
                  status |-> "pending",
                  attempts |-> 0,
                  maxAttempts |-> MaxAttempts]
         s1 == [Store EXCEPT !.heap = MapSet(@, taskId, task),
                             !.pendingMessages = @ \cup {taskId}]
         s2 == SetTimer(s1, taskId, delayMinutes, logChatId)
         s3 == Notify(s2, taskId, logChatId, "scheduled")
     IN /\ Commit(s3)
        /\ nextId' = nextId + 1
        /\ scheds' = IF logChatId # NoLog THEN scheds \cup {taskId} ELSE scheds
        /\ returnedIds' = IF logChatId # NoLog THEN returnedIds ELSE returnedIds \cup {taskId}
        /\ logChatIds' = [logChatIds EXCEPT ![taskId] = logChatId]
  /\ UNCHANGED <<now, execs, sends, cancelled, cancelledEarly, firedIds, held>>

\* the awaited 'scheduled' notification returns (sent or failed): return taskId
ScheduleReturns(taskId) ==
  /\ taskId \in scheds
  /\ scheds' = scheds \ {taskId}
  /\ returnedIds' = returnedIds \cup {taskId}
  /\ UNCHANGED <<now, heap, pendingMessages, timers, armed, nextTimer, nextId, execs,
                 notifications, history>>

\* ------------------------------------------------------------ scheduleRetry
scheduleRetry(st, taskId, delayMinutes, logChatId) ==
  SetTimer(st, taskId, delayMinutes, logChatId)

\* --------------------------------------------------- executeDelayedMessage
\* Mutant of CatchBlock: a retry moves the task's scheduledTime to its new
\* due time.
CatchBlock_MovesSchedule(st, taskId, logChatId) ==
  IF st.heap[taskId].attempts < st.heap[taskId].maxAttempts
    THEN scheduleRetry([st EXCEPT !.heap[taskId].scheduledTime =
                                     now + RetryDelayMinutes * MsPerMinute],
                       taskId, RetryDelayMinutes, logChatId)
    ELSE Notify([st EXCEPT !.heap[taskId].status = "failed"], taskId, logChatId, "failed")

\* Mutant of CatchBlock: the catch block counts the failed attempt once more.
CatchBlock_CountsTwice(st, taskId, logChatId) ==
  IF st.heap[taskId].attempts < st.heap[taskId].maxAttempts
    THEN scheduleRetry([st EXCEPT !.heap[taskId].attempts = @ + 1],
                       taskId, RetryDelayMinutes, logChatId)
    ELSE Notify([st EXCEPT !.heap[taskId].status = "failed"], taskId, logChatId, "failed")

\* catch (error) { ... }: retry while attempts < maxAttempts, else fail
CatchBlock(st, taskId, logChatId) ==
  IF st.heap[taskId].attempts < st.heap[taskId].maxAttempts
    THEN scheduleRetry(st, taskId, RetryDelayMinutes, logChatId)
    ELSE Notify([st EXCEPT !.heap[taskId].status = "failed"], taskId, logChatId, "failed")

\* Mutant of FinallyBlock: only a failed task is dropped from the table.
FinallyBlock_KeepsSent(st, taskId) ==
  LET s1 == ClearTaskTimer(st, taskId)
  IN IF s1.heap[taskId].status = "failed"
       THEN [s1 EXCEPT !.pendingMessages = @ \ {taskId}]
       ELSE s1

\* Mutant of FinallyBlock: the task is dropped whatever its status.
FinallyBlock_DropsAlways(st, taskId) ==
  [ClearTaskTimer(st, taskId) EXCEPT !.pendingMessages = @ \ {taskId}]

\* Mutant of FinallyBlock: the task stays and its timer is armed anew, due at
\* once.
FinallyBlock_Rearms(st, taskId) == SetTimer(st, taskId, 0, NoLog)

\* finally { ... }: clear the task's timer; drop the task once it is terminal
FinallyBlock(st, taskId) ==
  LET s1 == ClearTaskTimer(st, taskId)
  IN IF s1.heap[taskId].status \in {"sent", "failed"}
       THEN [s1 EXCEPT !.pendingMessages = @ \ {taskId}]
       ELSE s1

\* the catch block and what follows it, for the execution e (not yet in execs
\* when the throw is synchronous)
Caught(st, e) ==
  LET retrying == st.heap[e.id].attempts < st.heap[e.id].maxAttempts
      s1 == CatchBlock(st, e.id, e.log)
  IN IF ~retrying /\ e.log # NoLog
       THEN \* suspended at `await this.sendLogMessage(...)` of the failed branch
            /\ Commit(s1)
            /\ execs' = (execs \ {e}) \cup {[e EXCEPT !.pc = "logFailed"]}
       ELSE /\ Commit(FinallyBlock(s1, e.id))
            /\ execs' = execs \ {e}

\* Entry of executeDelayedMessage, up to `await client.sendMessage(...)`.
executeDelayedMessage(st, taskId, logChatId, h) ==
  IF taskId \notin st.pendingMessages
    THEN /\ Commit(st)
         /\ UNCHANGED <<execs, sends>>
    ELSE LET s1 == [st EXCEPT !.heap[taskId].attempts = @ + 1]
             e == [h |-> h, id |-> taskId, log |-> logChatId, pc |-> "send",
                   n |-> Len(sends[taskId]) + 1]
         IN \/ \* the send is under way
               /\ Commit(s1)
               /\ execs' = execs \cup {e}
               /\ sends' = [sends EXCEPT ![taskId] = Append(@, "?")]
            \/ \* getClient() throws: the client is not initialized
               /\ sends' = [sends EXCEPT ![taskId] = Append(@, "fail")]
               /\ Caught(s1, e)

\* An armed timer fires at or after its due time and runs its callback.
TimerFires(t) ==
  /\ t \in armed
  /\ now >= t.due
  /\ firedIds' = firedIds \cup {t.id}
  /\ executeDelayedMessage([Store EXCEPT !.armed = @ \ {t}], t.id, t.log, t.h)
  /\ UNCHANGED <<now, nextId, scheds, returnedIds, logChatIds, cancelled,
                 cancelledEarly, held>>

\* client.sendMessage resolved: lines 115-124, then finally unless awaiting the log
SendResolves(e) ==
  /\ e \in execs /\ e.pc = "send"
  /\ sends' = [sends EXCEPT ![e.id][e.n] = "ok"]
  /\ LET s1 == [Store EXCEPT !.heap[e.id].status = "sent"]
     IN IF e.log # NoLog
          THEN /\ Commit(Notify(s1, e.id, e.log, "sent"))
               /\ execs' = (execs \ {e}) \cup {[e EXCEPT !.pc = "logSent"]}
          ELSE /\ Commit(FinallyBlock(s1, e.id))
               /\ execs' = execs \ {e}
  /\ UNCHANGED <<now, nextId, scheds, returnedIds, logChatIds, cancelled,
                 cancelledEarly, firedIds, held>>

\* client.sendMessage rejected: the catch block
SendRejects(e) ==
  /\ e \in execs /\ e.pc = "send"
  /\ sends' = [sends EXCEPT ![e.id][e.n] = "fail"]
  /\ Caught(Store, e)
  /\ UNCHANGED <<now, nextId, scheds, returnedIds, logChatIds, cancelled,
                 cancelledEarly, firedIds, held>>

\* the awaited 'sent' / 'failed' notification returns: the finally block
LogReturns(e) ==
  /\ e \in execs /\ e.pc \in {"logSent", "logFailed"}
  /\ Commit(FinallyBlock(Store, e.id))
  /\ execs' = execs \ {e}
  /\ UNCHANGED <<now, nextId, scheds, returnedIds, history>>

\* --------------------------------------------------- cancelDelayedMessage
\* Mutant of cancelDelayedMessage: the early return taken when the task exists.
cancelDelayedMessage_InvertedGuard(taskId, returns) ==
  /\ IF taskId \in pendingMessages
       THEN /\ returns = FALSE
            /\ UNCHANGED <<heap, pendingMessages, timers, armed, nextTimer, notifications>>
       ELSE LET s1 == ClearTaskTimer(Store, taskId)
                s2 == [s1 EXCEPT !.pendingMessages = @ \ {taskId}]
            IN /\ Commit(s2)
               /\ returns = TRUE
  /\ cancelled' = IF returns THEN cancelled \cup {taskId} ELSE cancelled
  /\ cancelledEarly' = IF taskId \in returnedIds /\ taskId \notin firedIds
                         THEN cancelledEarly \cup {taskId} ELSE cancelledEarly
  /\ UNCHANGED <<now, nextId, execs, scheds, returnedIds, sends, logChatIds, firedIds, held>>

\* Mutant of cancelDelayedMessage: the task is deleted, its timer left armed.
cancelDelayedMessage_KeepsTimer(taskId, returns) ==
  /\ IF taskId \notin pendingMessages
       THEN /\ returns = FALSE
            /\ UNCHANGED <<heap, pendingMessages, timers, armed, nextTimer, notifications>>
       ELSE /\ Commit([Store EXCEPT !.pendingMessages = @ \ {taskId}])
            /\ returns = TRUE
  /\ cancelled' = IF returns THEN cancelled \cup {taskId} ELSE cancelled
  /\ cancelledEarly' = IF taskId \in returnedIds /\ taskId \notin firedIds
                         THEN cancelledEarly \cup {taskId} ELSE cancelledEarly
  /\ UNCHANGED <<now, nextId, execs, scheds, returnedIds, sends, logChatIds, firedIds, held>>

\* `returns` is the value the call returns.
cancelDelayedMessage(taskId, returns) ==
  /\ IF taskId \notin pendingMessages
       THEN /\ returns = FALSE
            /\ UNCHANGED <<heap, pendingMessages, timers, armed, nextTimer, notifications>>
       ELSE LET s1 == ClearTaskTimer(Store, taskId)
                s2 == [s1 EXCEPT !.pendingMessages = @ \ {taskId}]
            IN /\ Commit(s2)
               /\ returns = TRUE
  /\ cancelled' = IF returns THEN cancelled \cup {taskId} ELSE cancelled
  /\ cancelledEarly' = IF taskId \in returnedIds /\ taskId \notin firedIds
                         THEN cancelledEarly \cup {taskId} ELSE cancelledEarly
  /\ UNCHANGED <<now, nextId, execs, scheds, returnedIds, sends, logChatIds, firedIds, held>>

\* ------------------------------------------------------------------ clock
Tick ==
  /\ now < MaxClock * MsPerMinute
  /\ now' = now + MsPerMinute
  /\ UNCHANGED <<heap, pendingMessages, timers, armed, nextTimer, nextId, execs,
                 scheds, returnedIds, notifications, history>>
  /\ UNCHANGED <<pollVars, monitorVars, startupVars, pureVars>>

\* ------------------------------------------------------------ specification
\* The services after construction.
InitServices ==
  /\ now = 0
  /\ heap = <<>>
  /\ pendingMessages = {}
  /\ timers = <<>>
  /\ armed = {}
  /\ nextTimer = [i \in TaskIds |-> 0]
  /\ nextId = 1
  /\ execs = {}
  /\ scheds = {}
  /\ returnedIds = {}
  /\ sends = [i \in TaskIds |-> <<>>]
  /\ logChatIds = [i \in TaskIds |-> NoLog]
  /\ notifications = [i \in TaskIds |-> <<>>]
  /\ cancelled = {}
  /\ cancelledEarly = {}
  /\ firedIds = {}
  /\ held = <<>>
  /\ isPolling = FALSE
  /\ pollingInterval = 0
  /\ intervals = {}
  /\ processedMessages = [c \in Chats |-> 0]
  /\ sets = [n \in 1..(Len(TargetChats) * (MaxCycles + 1)) |-> {}]
  /\ channel = [c \in Chats |-> <<>>]
  /\ startCalls = {}
  /\ cycles = {}
  /\ nextStart = 1
  /\ nextCycle = 1
  /\ filtered = [c \in Chats |-> <<>>]
  /\ forwards = [c \in Chats |-> <<>>]
  /\ preexisting = [c \in Chats |-> {}]
  /\ invalidChats = {}
  /\ stopped = FALSE
  /\ isMonitoring = FALSE
  /\ handlers = 0
  /\ monitorStarts = {}
  /\ handling = {}
  /\ nextEvent = 1
  /\ nextMonitorStart = 1
  /\ eventLog = <<>>
  /\ monitorStopped = FALSE
  /\ ready = FALSE
  /\ waiters = [s \in Services |-> [pc |-> "check", attempts |-> 0]]

\* No call of a pure function is under study while the services run.
InitPure ==
  /\ call = [text |-> <<>>, cfg |-> config]
  /\ verdict = <<>>
  /\ permuted = <<>>
  /\ env = <<>>
  /\ loaded = <<>>

Init == InitServices /\ InitPure

\* ------------------------------------------------------ a client of the API
\* A caller of getTask / getPendingMessages keeps what it was handed: a
\* reference to the stored task object, and the field values it read then.
ClientGets ==
  /\ held = <<>>
  /\ \/ \E k \in TaskIds :
          /\ getTask(k) # <<>>
          /\ held' = <<[ref |-> getTask(k)[1], seen |-> heap[getTask(k)[1]]]>>
     \/ \E r \in getPendingMessages :
          /\ held' = <<[ref |-> r, seen |-> heap[r]]>>
  /\ UNCHANGED <<now, heap, pendingMessages, timers, armed, nextTimer, nextId, execs,
                 scheds, returnedIds, sends, logChatIds, notifications, cancelled,
                 cancelledEarly, firedIds>>
  /\ UNCHANGED <<pollVars, monitorVars, startupVars, pureVars>>

\* The caller writes a field of the object it was handed.
ClientWrites ==
  /\ held # <<>>
  /\ held[1].seen.message # "edited"
  /\ heap' = [heap EXCEPT ![held[1].ref].message = "edited"]
  /\ held' = <<[held[1] EXCEPT !.seen.message = "edited"]>>
  /\ UNCHANGED <<now, pendingMessages, timers, armed, nextTimer, nextId, execs,
                 scheds, returnedIds, sends, logChatIds, notifications, cancelled,
                 cancelledEarly, firedIds>>
  /\ UNCHANGED <<pollVars, monitorVars, startupVars, pureVars>>

\* The scheduler's steps leave the poller and the monitor alone.
Idle == UNCHANGED <<pollVars, monitorVars, startupVars, pureVars>>

Schedule ==
  /\ \E u \in Users, d \in Delays, l \in LogChats : scheduleDelayedMessage(u, d, l)
  /\ Idle
ScheduleDone == Idle /\ \E i \in TaskIds : ScheduleReturns(i)
Fire == Idle /\ \E t \in armed : TimerFires(t)
SendOk == Idle /\ \E e \in execs : SendResolves(e)
SendFail == Idle /\ \E e \in execs : SendRejects(e)
LogDone == Idle /\ \E e \in execs : LogReturns(e)
Cancel == Idle /\ \E i \in TaskIds, r \in BOOLEAN : cancelDelayedMessage(i, r)

Next == Schedule \/ ScheduleDone \/ Fire \/ SendOk \/ SendFail \/ LogDone \/ Cancel \/ Tick

Spec == Init /\ [][Next]_vars

\* Armed timers eventually fire (time passes), and every send and every
\* notification send eventually returns or throws.  Nothing obliges a caller to
\* schedule or to cancel.
Fairness ==
  /\ WF_vars(Tick)
  /\ WF_vars(ScheduleDone)
  /\ \A i \in TaskIds :
       /\ WF_vars(Idle /\ \E t \in armed : t.id = i /\ TimerFires(t))
       /\ WF_vars(Idle /\ \E e \in execs : e.id = i /\ (SendResolves(e) \/ SendRejects(e)))
       /\ WF_vars(Idle /\ \E e \in execs : e.id = i /\ LogReturns(e))

FairSpec == Spec /\ Fairness

\* The scheduler together with a client that keeps and writes what the query
\* API handed it.
NextClient == Next \/ ClientGets \/ ClientWrites

SpecClient == Init /\ [][NextClient]_vars

\* ======================================================= ChatPollingService
\* One action per synchronous run of the poller between two awaits.  Awaits
\* that follow one another with no access to a field in between (getEntity
\* then getMessages, the pause after a chat then the next getEntity) are one
\* suspension.  Once polling has started getClient() is taken to succeed.
PollIdle == UNCHANGED <<schedulerVars, monitorVars, startupVars, pureVars>>
pollHistory == <<filtered, forwards, preexisting, invalidChats, stopped>>

NumChats == Len(config.targetChats)
chatId(p) == config.targetChats[p.i]     \* the loop variable chatId of the call

\* The Set objects.  initializeProcessedMessages makes one for a chat that has
\* no entry in the Map, a poll cycle makes one when it comes to such a chat;
\* each is named by the place that makes it, and is empty until then.
SeedSet(s) == s.i
CycleSet(c) == NumChats * c.cid + c.i

\* client.getMessages(entity, { limit }): the `limit` most recent messages
Window(c, limit) ==
  LET n == Len(channel[c])
  IN  SubSeq(channel[c], IF n > limit THEN n - limit + 1 ELSE 1, n)

\* The orders in which a fetch may hand over the messages it returns.
Perms(s) ==
  {[n \in DOMAIN s |-> s[f[n]]] :
     f \in {g \in [DOMAIN s -> DOMAIN s] : \A a, b \in DOMAIN s : a # b => g[a] # g[b]}}

\* messages.filter(msg => msg.id && !processedSet.has(msg.id) && msg.message)
NewMessages(messages, processedSet) ==
  SelectSeq(messages,
            LAMBDA msg : msg.id # 0 /\ msg.id \notin processedSet /\ msg.message # <<>>)

\* Mutant of SortByDate: the batch is processed in the order it was fetched.
SortByDate_FetchOrder(messages) == messages

\* newMessages.sort((a, b) => a.date - b.date): a stable sort, ascending
RECURSIVE InsertByDate(_, _)
InsertByDate(sorted, msg) ==
  IF sorted = <<>> THEN <<msg>>
  ELSE IF Head(sorted).date - msg.date <= 0
       THEN <<Head(sorted)>> \o InsertByDate(Tail(sorted), msg)
       ELSE <<msg>> \o sorted

RECURSIVE SortPrefix(_, _)
SortPrefix(messages, n) ==
  IF n = 0 THEN <<>> ELSE InsertByDate(SortPrefix(messages, n - 1), messages[n])

SortByDate(messages) == SortPrefix(messages, Len(messages))

\* ------------------------------------------------------------ pollTargetChats
NewCycle == [cid |-> nextCycle, i |-> 1, pc |-> "fetch", batch |-> <<>>,
             done |-> <<>>, failed |-> {}, processedSet |-> 0]

\* pollTargetChats() up to its first await
pollTargetChats(running) ==
  IF ~isPolling
  THEN /\ cycles' = running
       /\ UNCHANGED nextCycle
  ELSE /\ nextCycle <= MaxCycles
       /\ cycles' = running \cup {NewCycle}
       /\ nextCycle' = nextCycle + 1

\* the for loop goes on with the next chat, or the cycle is over
NextChat(c) ==
  IF c.i < NumChats
  THEN {[c EXCEPT !.i = @ + 1, !.pc = "fetch", !.processedSet = 0, !.done = <<>>]}
  ELSE {}

\* Mutant of CatchPoll: the error ends the cycle.
CatchPoll_Rethrows(c) == {}

\* catch (error) of the loop body: log, then the next chat
CatchPoll(c) == NextChat([c EXCEPT !.failed = @ \cup {chatId(c)}])

\* after processNewMessage returned: processedSet.add(message.id), next message
AfterMessage(c) ==
  IF Len(c.batch) > 1
  THEN {[c EXCEPT !.batch = Tail(@), !.pc = "lookup"]}
  ELSE NextChat([c EXCEPT !.batch = <<>>])

\* Mutant of AddProcessed: the whole batch is marked with its first message.
AddProcessed_WholeBatch(c) ==
  /\ sets' = [sets EXCEPT ![c.processedSet] =
                              @ \cup {c.batch[n].id : n \in DOMAIN c.batch}]
  /\ processedMessages' =
       IF Len(c.batch) > 1 THEN processedMessages
       ELSE [processedMessages EXCEPT ![chatId(c)] = c.processedSet]

\* processedSet.add(message.id) and, after the last message of the batch,
\* this.processedMessages.set(chatId, processedSet)
AddProcessed(c) ==
  /\ sets' = [sets EXCEPT ![c.processedSet] = @ \cup {Head(c.batch).id}]
  /\ processedMessages' =
       IF Len(c.batch) > 1 THEN processedMessages
       ELSE [processedMessages EXCEPT ![chatId(c)] = c.processedSet]

\* getEntity and getMessages of the chat resolved: processedSet is the
\* chat's Set, or a new Set() when the Map has no entry for the chat (kept
\* only when there is a batch to work on)
FetchReturns(c, messages) ==
  /\ c.pc = "fetch"
  /\ LET entry == processedMessages[chatId(c)]
         processedSet == IF entry # 0 THEN sets[entry] ELSE {}
         newMessages == NewMessages(messages, processedSet)
         sortedMessages == SortByDate(newMessages)
     IN  IF Len(newMessages) > 0
         THEN /\ sets' = sets
              /\ cycles' = (cycles \ {c}) \cup
                    {[c EXCEPT !.pc = "lookup", !.batch = sortedMessages,
                               !.done = <<>>,
                               !.processedSet = IF entry # 0 THEN entry
                                                ELSE CycleSet(c)]}
         ELSE /\ sets' = sets
              /\ cycles' = (cycles \ {c}) \cup NextChat(c)
  /\ UNCHANGED <<isPolling, pollingInterval, intervals, processedMessages, channel,
                 startCalls, nextStart, nextCycle, pollHistory>>
  /\ PollIdle

\* the fetch hands over the messages of the window in some order
FetchResolves(c) ==
  \E messages \in Perms(Window(chatId(c), MESSAGES_LIMIT)) : FetchReturns(c, messages)

\* the fetch hands over the messages of the window in the order of the channel
FetchResolvesInOrder(c) == FetchReturns(c, Window(chatId(c), MESSAGES_LIMIT))

\* getEntity or getMessages of the chat threw
FetchRejects(c) ==
  /\ c.pc = "fetch"
  /\ cycles' = (cycles \ {c}) \cup CatchPoll(c)
  /\ UNCHANGED <<isPolling, pollingInterval, intervals, processedMessages, sets, channel,
                 startCalls, nextStart, nextCycle, pollHistory>>
  /\ PollIdle

\* processNewMessage from the sender lookup (resolved or thrown) on: the
\* filter, and for a match the forward up to its await
processNewMessage(c) ==
  /\ c.pc = "lookup"
  /\ LET message == Head(c.batch)
         filterResult == filterMessage(message.message, config)
         d == [c EXCEPT !.done = Append(@, message.date)]
     IN  /\ filtered' = [filtered EXCEPT ![chatId(c)] = Append(@, message.id)]
         /\ IF filterResult.shouldForward
            THEN /\ cycles' = (cycles \ {c}) \cup {[d EXCEPT !.pc = "forward"]}
                 /\ UNCHANGED <<processedMessages, sets>>
            ELSE /\ cycles' = (cycles \ {c}) \cup AfterMessage(d)
                 /\ AddProcessed(c)
  /\ UNCHANGED <<isPolling, pollingInterval, intervals, channel, startCalls,
                 nextStart, nextCycle, forwards, preexisting, invalidChats, stopped>>
  /\ PollIdle

\* forwardMessage(messageText, chatTitle, chatId, userName, ...) returned: the
\* send went out, or an error was logged.  userName is what the sender lookup
\* left in it, the display name or 'Unknown User'; it goes into the text of
\* the forwarded message and nowhere else, so it is drawn here.
ForwardReturns(c, userName, sent) ==
  /\ c.pc = "forward"
  /\ forwards' = IF sent THEN [forwards EXCEPT ![chatId(c)] = Append(@, Head(c.batch).id)]
                 ELSE forwards
  /\ AddProcessed(c)
  /\ cycles' = (cycles \ {c}) \cup AfterMessage(c)
  /\ UNCHANGED <<isPolling, pollingInterval, intervals, channel, startCalls,
                 nextStart, nextCycle, filtered, preexisting, invalidChats, stopped>>
  /\ PollIdle

\* the interval's callback
IntervalFires(h) ==
  /\ h \in intervals
  /\ pollTargetChats(cycles)
  /\ UNCHANGED <<isPolling, pollingInterval, intervals, processedMessages, sets, channel,
                 startCalls, nextStart, pollHistory>>
  /\ PollIdle

\* --------------------------------------------------------------- startPolling
\* startPolling() up to its first await (in validateTargetChats)
startPolling ==
  /\ stopped' = FALSE
  /\ IF isPolling
     THEN UNCHANGED <<startCalls, nextStart>>
     ELSE /\ nextStart <= MaxStarts
          /\ startCalls' = startCalls \cup {[sid |-> nextStart, pc |-> "validate", i |-> 1]}
          /\ nextStart' = nextStart + 1
  /\ UNCHANGED <<isPolling, pollingInterval, intervals, processedMessages, sets, channel,
                 cycles, nextCycle, filtered, forwards, preexisting, invalidChats>>

\* What validateTargetChats may find: every chat valid, the first chat not
\* valid, no chat valid.
ValidationOutcomes == {Chats, Chats \ {TargetChats[1]}, {}}

\* validateTargetChats is over: validChats holds the chats whose getEntity
\* resolved.  With none it throws, and startPolling's catch resets isPolling;
\* otherwise isPolling = true and initializeProcessedMessages begins.
ValidateReturns(s, validChats) ==
  /\ s.pc = "validate"
  /\ invalidChats' = Chats \ validChats
  /\ IF Cardinality(validChats) = 0
     THEN /\ isPolling' = FALSE
          /\ startCalls' = startCalls \ {s}
     ELSE /\ isPolling' = TRUE
          /\ startCalls' = (startCalls \ {s}) \cup {[s EXCEPT !.pc = "seed", !.i = 1]}
  /\ UNCHANGED <<pollingInterval, intervals, processedMessages, sets, channel, cycles,
                 nextStart, nextCycle, filtered, forwards, preexisting, stopped>>
  /\ PollIdle

\* startPolling after initializeProcessedMessages returned: setInterval, then
\* the first pollTargetChats() up to its await
ArmInterval(s) ==
  /\ pollingInterval' = s.sid
  /\ intervals' = intervals \cup {s.sid}
  /\ startCalls' = startCalls \ {s}
  /\ pollTargetChats(cycles)

WindowIds(c) ==
  {Window(c, MESSAGES_LIMIT)[n].id : n \in DOMAIN Window(c, MESSAGES_LIMIT)}

\* initializeProcessedMessages: getEntity and getMessages of the chat resolved
SeedResolves(s) ==
  /\ s.pc = "seed"
  /\ LET entry == processedMessages[chatId(s)]
         ids == WindowIds(chatId(s)) \ {0}
     IN  IF entry # 0
         THEN /\ sets' = [sets EXCEPT ![entry] = @ \cup ids]
              /\ UNCHANGED processedMessages
         ELSE /\ sets' = [sets EXCEPT ![SeedSet(s)] = ids]
              /\ processedMessages' =
                   [processedMessages EXCEPT ![chatId(s)] = SeedSet(s)]
  /\ preexisting' = [preexisting EXCEPT ![chatId(s)] = @ \cup WindowIds(chatId(s))]
  /\ startCalls' = (startCalls \ {s}) \cup
                   {IF s.i < NumChats THEN [s EXCEPT !.i = @ + 1]
                    ELSE [s EXCEPT !.pc = "arm"]}
  /\ UNCHANGED <<isPolling, pollingInterval, intervals, channel, cycles, nextStart,
                 nextCycle, filtered, forwards, invalidChats, stopped>>
  /\ PollIdle

\* initializeProcessedMessages: getEntity or getMessages of the chat threw; the
\* catch logs, and the loop (or, after the last chat, startPolling) goes on
SeedRejects(s) ==
  /\ s.pc = "seed"
  /\ preexisting' = [preexisting EXCEPT ![chatId(s)] = @ \cup WindowIds(chatId(s))]
  /\ IF s.i < NumChats
     THEN /\ startCalls' = (startCalls \ {s}) \cup {[s EXCEPT !.i = @ + 1]}
          /\ UNCHANGED <<pollingInterval, intervals, cycles, nextCycle>>
     ELSE ArmInterval(s)
  /\ UNCHANGED <<isPolling, processedMessages, sets, channel, nextStart, filtered,
                 forwards, invalidChats, stopped>>
  /\ PollIdle

\* the 500 ms pause after the last chat is over
SeedPauseEnds(s) ==
  /\ s.pc = "arm"
  /\ ArmInterval(s)
  /\ UNCHANGED <<isPolling, processedMessages, sets, channel, nextStart, pollHistory>>
  /\ PollIdle

stopPolling ==
  /\ IF pollingInterval # 0
     THEN /\ intervals' = intervals \ {pollingInterval}
          /\ pollingInterval' = 0
     ELSE UNCHANGED <<intervals, pollingInterval>>
  /\ isPolling' = IF isPolling THEN FALSE ELSE isPolling
  /\ stopped' = TRUE
  /\ UNCHANGED <<processedMessages, sets, channel, startCalls, cycles, nextStart,
                 nextCycle, filtered, forwards, preexisting, invalidChats>>

\* ------------------------------------------------------------ the channels
Posted == Len(channel[TargetChats[1]]) + Len(channel[TargetChats[2]])

\* somebody posts a message to a target chat: its id and its date are not
\* below those of the messages the chat holds (a message without text enters
\* no batch and is never sorted: its date is left at that of its predecessor)
Posts(c, date, text) ==
  /\ Posted < MaxMsgs
  /\ LET last == IF channel[c] = <<>> THEN 1 ELSE channel[c][Len(channel[c])].date
     IN  IF text = <<>> THEN date = last ELSE date >= last
  /\ channel' = [channel EXCEPT
                   ![c] = Append(@, [id |-> Len(@) + 1, date |-> date, message |-> text])]
  /\ UNCHANGED <<isPolling, pollingInterval, intervals, processedMessages, sets,
                 startCalls, cycles, nextStart, nextCycle, pollHistory>>
  /\ PollIdle

StartPolling == startPolling /\ PollIdle
StopPolling == stopPolling /\ PollIdle
Validated ==
  \E s \in startCalls, validChats \in ValidationOutcomes : ValidateReturns(s, validChats)
SeedOk == \E s \in startCalls : SeedResolves(s)
SeedFail == \E s \in startCalls : SeedRejects(s)
SeedPaused == \E s \in startCalls : SeedPauseEnds(s)
IntervalTick == \E h \in intervals : IntervalFires(h)
FetchOk == \E c \in cycles : FetchResolves(c)
FetchFail == \E c \in cycles : FetchRejects(c)
Process == \E c \in cycles : processNewMessage(c)
ForwardDone ==
  \E c \in cycles, userName \in UserNames, sent \in BOOLEAN : ForwardReturns(c, userName, sent)
Post == \E c \in Chats, date \in Dates, text \in Texts : Posts(c, date, text)

NextPoll ==
  \/ StartPolling \/ StopPolling \/ Validated \/ SeedOk \/ SeedFail \/ SeedPaused
  \/ IntervalTick \/ FetchOk \/ FetchFail \/ Process \/ ForwardDone \/ Post

SpecPoll == Init /\ [][NextPoll]_vars

\* ----------------------------------------------- a burst between two polls
\* The poller when a silent chat gets more messages than a fetch returns
\* between two steps of the poller: BurstLen messages, of which the first
\* BurstTexts carry a text (one that the filter turns down) and the others
\* carry none.
BurstLen == MESSAGES_LIMIT + 1
BurstTexts == 2
BurstText == <<"n", "o">>

Burst(c) ==
  /\ Posted = 0
  /\ channel' = [channel EXCEPT
                   ![c] = [n \in 1..BurstLen |->
                             [id |-> n, date |-> 1,
                              message |-> IF n <= BurstTexts THEN BurstText
                                          ELSE <<>>]]]
  /\ UNCHANGED <<isPolling, pollingInterval, intervals, processedMessages, sets,
                 startCalls, cycles, nextStart, nextCycle, pollHistory>>
  /\ PollIdle

FetchOkInOrder == \E c \in cycles : FetchResolvesInOrder(c)
PostBurst == \E c \in Chats : Burst(c)

NextBurst ==
  \/ StartPolling \/ StopPolling \/ Validated \/ SeedOk \/ SeedFail \/ SeedPaused
  \/ IntervalTick \/ FetchOkInOrder \/ FetchFail \/ Process \/ PostBurst

SpecBurst == Init /\ [][NextBurst]_vars

\* ======================================================= ChatMonitorService
\* The events the client delivers: a message text, the peer the message was
\* posted to (class name and id, <<>> for no peerId) and a sender.
Peers == {<<"PeerChannel", "1">>, <<"PeerChat", "7">>, <<"PeerChannel", "9">>,
          <<"PeerUser", "1">>, <<>>}
Events == [message : Texts, peerId : Peers]

MonitorIdle == UNCHANGED <<pollVars, startupVars, pureVars>>
SchedulerIdle == UNCHANGED schedulerVars

\* the chat id handleNewMessage computes from message.peerId; "" where it returns
ComputedChatId(peerId) ==
  IF peerId = <<>> THEN ""
  ELSE IF peerId[1] = "PeerChannel" THEN "-100" \o peerId[2]
  ELSE IF peerId[1] = "PeerChat" THEN "-" \o peerId[2]
  ELSE ""

\* Mutant of Handles: the check against config.targetChats is missing.
Handles_AnyChat(event) ==
  event.message # <<>> /\ ComputedChatId(event.peerId) # ""

\* handleNewMessage gets past its early returns
Handles(event) ==
  /\ event.message # <<>>
  /\ ComputedChatId(event.peerId) # ""
  /\ \E n \in DOMAIN config.targetChats :
       config.targetChats[n] = ComputedChatId(event.peerId)

\* startMonitoring() up to its await (in validateTargetChats)
startMonitoring ==
  /\ monitorStopped' = FALSE
  /\ IF isMonitoring
     THEN UNCHANGED <<monitorStarts, nextMonitorStart>>
     ELSE /\ nextMonitorStart <= MaxMonitorStarts
          /\ monitorStarts' = monitorStarts \cup {nextMonitorStart}
          /\ nextMonitorStart' = nextMonitorStart + 1
  /\ UNCHANGED <<isMonitoring, handlers, handling, nextEvent, eventLog>>

\* validateTargetChats is over.  With no accessible chat it throws and the
\* catch resets isMonitoring; otherwise isMonitoring = true and
\* client.addEventHandler registers one more bound handleNewMessage.
MonitorValidateReturns(s, validChats) ==
  /\ s \in monitorStarts
  /\ monitorStarts' = monitorStarts \ {s}
  /\ IF Cardinality(validChats) = 0
     THEN /\ isMonitoring' = FALSE
          /\ UNCHANGED handlers
     ELSE /\ isMonitoring' = TRUE
          /\ handlers' = handlers + 1
  /\ UNCHANGED <<handling, nextEvent, nextMonitorStart, eventLog, monitorStopped>>
  /\ MonitorIdle
  /\ SchedulerIdle

\* stopMonitoring(); the history flag is raised when no startMonitoring call
\* is under way
stopMonitoring ==
  /\ isMonitoring' = IF isMonitoring THEN FALSE ELSE isMonitoring
  /\ monitorStopped' = (monitorStarts = {})
  /\ UNCHANGED <<handlers, monitorStarts, handling, nextEvent, nextMonitorStart,
                 eventLog>>

\* The client delivers an event: every registered handler runs
\* handleNewMessage up to its first await, client.getEntity(chatId).
Delivers(event) ==
  /\ nextEvent <= MaxEvents
  /\ nextEvent' = nextEvent + 1
  /\ LET callers == IF Handles(event) THEN 1..handlers ELSE {}
     IN  /\ handling' = handling \cup
                        {[ev |-> nextEvent, handler |-> k, pc |-> "lookup", userId |-> ""] :
                           k \in callers}
         /\ eventLog' = Append(eventLog,
                               [event |-> event, afterStop |-> monitorStopped,
                                handlers |-> handlers,
                                lookups |-> Cardinality(callers), filtered |-> 0,
                                forwards |-> 0, tasks |-> 0])
  /\ UNCHANGED <<isMonitoring, handlers, monitorStarts, nextMonitorStart, monitorStopped>>
  /\ MonitorIdle
  /\ SchedulerIdle

\* The lookups of handleNewMessage are over: getEntity(chatId) threw (the outer
\* catch ends the call), or it resolved and the sender lookup resolved or
\* threw (userId = null).  Then the filter, and for a match forwardMessage up
\* to its await.
LookupReturns(h, outcome) ==
  /\ h.pc = "lookup"
  /\ LET messageText == eventLog[h.ev].event.message
         filterResult == filterMessage(messageText, config)
         userId == IF outcome = "resolved" THEN "S1" ELSE ""
     IN  IF outcome = "chatFailed"
         THEN /\ handling' = handling \ {h}
              /\ UNCHANGED eventLog
         ELSE /\ eventLog' = [eventLog EXCEPT ![h.ev].filtered = @ + 1]
              /\ handling' = (handling \ {h}) \cup
                             (IF filterResult.shouldForward
                              THEN {[h EXCEPT !.pc = "forward", !.userId = userId]}
                              ELSE {})
  /\ UNCHANGED <<isMonitoring, handlers, monitorStarts, nextEvent, nextMonitorStart,
                 monitorStopped>>
  /\ MonitorIdle
  /\ SchedulerIdle

\* forwardMessage: the send to targetChatId threw (logged), or it went out
\* and, with delayed messages enabled and the sender known,
\* scheduleDelayedResponse calls scheduleDelayedMessage.
MonitorForwardReturns(h, sent) ==
  /\ h.pc = "forward"
  /\ handling' = handling \ {h}
  /\ IF sent /\ config.delayedMessagesEnabled /\ h.userId # ""
     THEN /\ scheduleDelayedMessage(h.userId, config.defaultDelayMinutes, config.logChatId)
          /\ eventLog' = [eventLog EXCEPT ![h.ev].forwards = @ + 1, ![h.ev].tasks = @ + 1]
     ELSE /\ eventLog' = [eventLog EXCEPT ![h.ev].forwards = @ + (IF sent THEN 1 ELSE 0)]
          /\ SchedulerIdle
  /\ UNCHANGED <<isMonitoring, handlers, monitorStarts, nextEvent, nextMonitorStart,
                 monitorStopped>>
  /\ MonitorIdle

StartMonitoring == startMonitoring /\ MonitorIdle /\ SchedulerIdle
StopMonitoring == stopMonitoring /\ MonitorIdle /\ SchedulerIdle
MonitorValidated ==
  \E s \in monitorStarts, validChats \in SUBSET Chats : MonitorValidateReturns(s, validChats)
Deliver == \E event \in Events : Delivers(event)
LookupDone ==
  \E h \in handling, outcome \in {"chatFailed", "resolved", "userFailed"} :
    LookupReturns(h, outcome)
MonitorForwardDone == \E h \in handling, sent \in BOOLEAN : MonitorForwardReturns(h, sent)

NextMonitor ==
  \/ StartMonitoring \/ StopMonitoring \/ MonitorValidated \/ Deliver \/ LookupDone
  \/ MonitorForwardDone \/ ScheduleDone

SpecMonitor == Init /\ [][NextMonitor]_vars

\* ================================================================= start-up
\* waitForClientAndStartPolling / waitForClientAndStartMonitoring, called by
\* onModuleInit.  The start call it ends with is the service's own.
Start(service) ==
  IF service = "polling"
  THEN startPolling /\ UNCHANGED <<schedulerVars, monitorVars>>
  ELSE startMonitoring /\ UNCHANGED <<schedulerVars, pollVars>>

\* Mutant of AfterLoop: no second look at isReady() once the loop is left.
AfterLoop_NoRecheck(service, attempts) ==
  /\ waiters' = [waiters EXCEPT ![service] = [pc |-> "started", attempts |-> attempts]]
  /\ Start(service)

\* after the loop: if (!isReady()) return; otherwise the start call
AfterLoop(service, attempts) ==
  IF ~ready
  THEN /\ waiters' = [waiters EXCEPT ![service] = [pc |-> "gaveUp", attempts |-> attempts]]
       /\ UNCHANGED <<schedulerVars, pollVars, monitorVars>>
  ELSE /\ waiters' = [waiters EXCEPT ![service] = [pc |-> "started", attempts |-> attempts]]
       /\ Start(service)

\* while (!isReady() && attempts < 60) { await 1 s; attempts++ }, entered with
\* the given value of attempts
WaitLoop(service, attempts) ==
  /\ IF ~ready /\ attempts < MaxReadyChecks
     THEN /\ waiters' = [waiters EXCEPT ![service] = [pc |-> "wait", attempts |-> attempts]]
          /\ UNCHANGED <<schedulerVars, pollVars, monitorVars>>
     ELSE AfterLoop(service, attempts)
  /\ UNCHANGED <<ready, pureVars>>

\* onModuleInit calls the wait function
WaitBegins(service) ==
  /\ waiters[service].pc = "check"
  /\ WaitLoop(service, 0)

\* the one-second timer of the loop fires
WaitEnds(service) ==
  /\ waiters[service].pc = "wait"
  /\ WaitLoop(service, waiters[service].attempts + 1)

\* the Telegram client connects, or loses its connection
ReadyChanges ==
  /\ ready' = ~ready
  /\ UNCHANGED <<waiters, schedulerVars, pollVars, monitorVars, pureVars>>

WaitStart == \E service \in Services : WaitBegins(service)
WaitTimer == \E service \in Services : WaitEnds(service)

NextStartup == WaitStart \/ WaitTimer \/ ReadyChanges

SpecStartup == Init /\ [][NextStartup]_vars

\* ============================================ filterMessage, called alone
\* MessageFilterService.filterMessage reads its two arguments and nothing
\* else.  Here it is called on a text over the alphabet Chars and a policy
\* whose lists hold the keywords of KeywordPool, chosen when the run starts.
Chars == {"o", "K", "n", " "}
MaxTextLen == 3
FilterTexts == UNION {[1..n -> Chars] : n \in 0..MaxTextLen}
KeywordPool == {<<"o", "k">>, <<"n">>}
KeywordLists == UNION {[1..n -> KeywordPool] : n \in 0..Cardinality(KeywordPool)}
Policies == [keywords : KeywordLists \ {<<>>}, excludeKeywords : KeywordLists,
             minMessageLength : 0..MaxTextLen]

FilterIdle == UNCHANGED <<schedulerVars, pollVars, monitorVars, startupVars,
                          call, env, loaded>>

InitFilter ==
  /\ InitServices
  /\ call \in [text : FilterTexts, cfg : Policies]
  /\ verdict = <<>>
  /\ permuted = <<>>
  /\ env = <<>>
  /\ loaded = <<>>

\* filterMessage(text, config) is called, not for the first time perhaps
Evaluate ==
  /\ verdict' = <<filterMessage(call.text, call.cfg)>>
  /\ UNCHANGED permuted
  /\ FilterIdle

\* filterMessage is called on the same text and the policy with its two
\* keyword lists in another order
EvaluatePermuted ==
  \E keywords \in Perms(call.cfg.keywords),
     excludeKeywords \in Perms(call.cfg.excludeKeywords) :
    /\ permuted' = <<filterMessage(call.text,
                                   [call.cfg EXCEPT !.keywords = keywords,
                                                    !.excludeKeywords = excludeKeywords])>>
    /\ UNCHANGED verdict
    /\ FilterIdle

NextFilter == Evaluate \/ EvaluatePermuted

SpecFilter == InitFilter /\ [][NextFilter]_vars

\* ======================================== getMonitoringConfig, called alone
\* process.env as getMonitoringConfig reads it: the three required variables,
\* each a string of up to MaxEnvLen characters (<<>> is an unset or empty
\* variable: the code does not tell them apart); the optional ones are unset.
MaxEnvLen == 3
EnvStrings(chars) == UNION {[1..n -> chars] : n \in 0..MaxEnvLen}
Environments == [TARGET_CHATS : EnvStrings({"7", ",", " "}),
                 KEYWORDS : EnvStrings({"K", ",", " "}),
                 TARGET_CHAT_ID : EnvStrings({"5", " "})]

\* s.split(',')
RECURSIVE split(_)
split(s) ==
  IF \A n \in DOMAIN s : s[n] # ","
  THEN <<s>>
  ELSE LET comma == CHOOSE n \in DOMAIN s :
                      s[n] = "," /\ \A m \in 1..(n - 1) : s[m] # ","
       IN  <<SubSeq(s, 1, comma - 1)>> \o split(SubSeq(s, comma + 1, Len(s)))

\* list.filter(item => item.length > 0)
NonEmpty(list) == SelectSeq(list, LAMBDA item : Len(item) > 0)

\* list.map(chat => chat.trim())
TrimAll(list) == [n \in DOMAIN list |-> trim(list[n])]

\* list.map(keyword => keyword.trim().toLowerCase())
TrimLowerAll(list) == [n \in DOMAIN list |-> toLowerCase(trim(list[n]))]

\* getMonitoringConfig(): [ok |-> FALSE] when it throws
getMonitoringConfig(e) ==
  IF e.TARGET_CHATS = <<>> \/ e.KEYWORDS = <<>> \/ e.TARGET_CHAT_ID = <<>>
  THEN [ok |-> FALSE]
  ELSE [ok |-> TRUE,
        config |-> [targetChats |-> NonEmpty(TrimAll(split(e.TARGET_CHATS))),
                    keywords |-> NonEmpty(TrimLowerAll(split(e.KEYWORDS))),
                    targetChatId |-> trim(e.TARGET_CHAT_ID),
                    excludeKeywords |-> <<>>, minMessageLength |-> 0,
                    delayedMessagesEnabled |-> FALSE,
                    defaultDelayMinutes |-> 30]]

InitConfig ==
  /\ InitServices
  /\ call = [text |-> <<>>, cfg |-> config]
  /\ verdict = <<>>
  /\ permuted = <<>>
  /\ env \in Environments
  /\ loaded = <<>>

\* a service's constructor calls getMonitoringConfig()
LoadConfig ==
  /\ loaded' = <<getMonitoringConfig(env)>>
  /\ UNCHANGED <<schedulerVars, pollVars, monitorVars, startupVars,
                 call, verdict, permuted, env>>

NextConfig == LoadConfig

SpecConfig == InitConfig /\ [][NextConfig]_vars

\* ------------------------------------------------------------------ claims
Terminal == {"sent", "failed"}
Created == DOMAIN heap
ArmedFor(i) == {t \in armed : t.id = i}
InFlight(i) == \E e \in execs : e.id = i
Last(q) == q[Len(q)]
AllFailed(i) == sends[i] # <<>> /\ \A n \in 1..Len(sends[i]) : sends[i][n] = "fail"

\* C1: a task whose every send attempt fails is attempted exactly maxAttempts
\* (3) times, stays pending after attempts 1 and 2, is failed after attempt 3
\* and is then gone from getPendingMessages.  Stated on the states where
\* nothing more can happen to the task (no timer of it armed, no execution of
\* it under way): there all its attempts have been made.
C1_RetryBound ==
  \A i \in Created :
    (AllFailed(i) /\ i \notin cancelled /\ ArmedFor(i) = {} /\ ~InFlight(i))
      => /\ Len(sends[i]) = MaxAttempts
         /\ heap[i].attempts = MaxAttempts
         /\ heap[i].status = "failed"
         /\ i \notin getPendingMessages

\* The step in which an execution of task i finishes after a failed send.
ExecutionFailed(i) ==
  \/ \E e \in execs : e.id = i /\ SendRejects(e)
  \/ \E t \in armed : /\ t.id = i
                      /\ TimerFires(t)
                      /\ Len(sends'[i]) > Len(sends[i])
                      /\ Last(sends'[i]) = "fail"

\* C2: when executeDelayedMessage finishes after a send failure with
\* attempts < maxAttempts, the task is still in the live table, pending, and a
\* retry timer for it is armed: in the timer table and not cleared.
C2_RetryArmed ==
  [][\A i \in TaskIds :
       (/\ i \in pendingMessages
        /\ ExecutionFailed(i)
        /\ heap'[i].attempts < heap'[i].maxAttempts)
         => /\ i \in pendingMessages'
            /\ heap'[i].status = "pending"
            /\ i \in DOMAIN timers'
            /\ \E t \in armed' : t.id = i /\ t.h = timers'[i]]_vars

\* C3: under FairSpec (armed timers fire, sends return), every task that is
\* scheduled and never cancelled eventually reaches sent or failed and is
\* removed from the live table.
C3_EventuallyTerminal ==
  \A i \in TaskIds :
    (i \in pendingMessages)
      ~> (/\ i \notin pendingMessages
          /\ i \in Created
          /\ (heap[i].status \in Terminal \/ i \in cancelled))

\* C4: a task whose first send succeeds is pending while that send is under
\* way, is sent after exactly one attempt (attempts = 1), and once its
\* execution has finished neither getPendingMessages nor getTask returns it.
C4_SuccessPath ==
  \A i \in Created :
    /\ sends[i] = <<"?">> => heap[i].status = "pending" /\ heap[i].attempts = 1
    /\ (sends[i] # <<>> /\ sends[i][1] = "ok")
         => /\ heap[i].status = "sent"
            /\ heap[i].attempts = 1
            /\ Len(sends[i]) = 1
            /\ ~InFlight(i) => (i \notin getPendingMessages /\ getTask(i) = <<>>)

C4_Witness ==
  \E i \in Created : sends[i] = <<"ok">> /\ ~InFlight(i) /\ i \notin getPendingMessages

\* C5: if cancelDelayedMessage(id) is called after scheduleDelayedMessage
\* returned id and before the scheduled timer fired, no send attempt for the
\* task is ever made.
C5_CancelBeforeFire ==
  \A i \in cancelledEarly :
    sends[i] = <<>> /\ heap[i].attempts = 0 /\ ~InFlight(i)

\* cancelled in time, and the instant the task was scheduled for has come
C5_Witness ==
  \E i \in cancelledEarly : now >= heap[i].scheduledTime /\ ArmedFor(i) = {} /\ i \in cancelled

\* C6: a cancelDelayedMessage(id) call made once executeDelayedMessage(id) has
\* set the status to sent or failed (also while that execution still awaits
\* its log notification) returns false and changes nothing.
C6_CancelAfterTerminal ==
  [][\A i \in TaskIds, r \in BOOLEAN :
       (/\ i \in Created
        /\ heap[i].status \in Terminal
        /\ cancelDelayedMessage(i, r))
         => r = FALSE /\ UNCHANGED <<heap, pendingMessages, timers, armed>>]_vars

\* C7: cancelDelayedMessage(id) returns true exactly when id is in the live
\* table at the call; after the call the task is absent and has no timer, and
\* a cancelled task never reappears in the table, never has a timer armed and
\* never starts another send attempt, whatever execution was under way.
C7_Cancel ==
  [][/\ \A i \in TaskIds, r \in BOOLEAN :
          cancelDelayedMessage(i, r)
            => /\ r = (i \in pendingMessages)
               /\ i \notin pendingMessages'
               /\ i \notin DOMAIN timers'
               /\ {t \in armed' : t.id = i} = {}
     /\ \A i \in cancelled :
          /\ i \notin pendingMessages'
          /\ {t \in armed' : t.id = i} = {}
          /\ Len(sends'[i]) = Len(sends[i])]_vars

\* a task cancelled while its execution was under way, the execution now over
\* (only an execution sets the status, and it drops a sent task itself unless
\* cancelled first)
C7_Witness ==
  \E i \in cancelled : heap[i].status = "sent" /\ ~InFlight(i) /\ sends[i] = <<"ok">>

\* C8: right after scheduleDelayedMessage registers a task, the task is in the
\* live table with status pending, attempts = 0, maxAttempts = 3 and
\* scheduledTime = now + delayMinutes, and exactly one timer is armed for its
\* id, due at that instant.
C8_Registered ==
  [][\A u \in Users, d \in Delays, l \in LogChats :
       scheduleDelayedMessage(u, d, l)
         => LET i == nextId
            IN /\ i \in pendingMessages'
               /\ heap'[i].status = "pending"
               /\ heap'[i].attempts = 0
               /\ heap'[i].maxAttempts = MaxAttempts
               /\ heap'[i].scheduledTime = now + d * MsPerMinute
               /\ Cardinality({t \in armed' : t.id = i}) = 1
               /\ i \in DOMAIN timers'
               /\ \A t \in armed' : t.id = i =>
                    t.h = timers'[i] /\ t.due = heap'[i].scheduledTime]_vars

C8_Witness ==
  \E i \in pendingMessages :
    /\ heap[i].attempts = 0 /\ heap[i].status = "pending"
    /\ heap[i].scheduledTime > now
    /\ Cardinality(ArmedFor(i)) = 1

\* C9: what getPendingMessages and getTask return are read-only snapshots: a
\* caller writing to a returned task never changes a task stored in the live
\* table, and no later step of the scheduler changes the values the caller was
\* handed.
C9_ReadOnlySnapshots ==
  [][/\ ClientWrites => \A k \in pendingMessages : heap'[k] = heap[k]
     /\ (held # <<>> /\ held' = held) => heap'[held[1].ref] = held[1].seen]_vars

\* C10: with a logChatId, one 'scheduled' notification send is attempted per
\* scheduleDelayedMessage call and exactly one 'sent' / 'failed' notification
\* send once the task is sent / failed; without a logChatId no notification
\* send is ever attempted for the task.
C10_Notifications ==
  \A i \in Created :
    notifications[i] =
      IF logChatIds[i] = NoLog THEN <<>>
      ELSE <<"scheduled">> \o (IF heap[i].status \in Terminal
                                 THEN <<heap[i].status>> ELSE <<>>)

C10_Witness ==
  \E i \in Created :
    /\ logChatIds[i] # NoLog
    /\ notifications[i] = <<"scheduled", "sent">>
    /\ ~InFlight(i)

\* ------------------------------------------------- claims about the poller
\* C11: across any interleaving of poll cycles, also one started by the
\* interval while an earlier cycle still awaits a fetch or a send, each message
\* id of a channel is passed to the filter at most once.
C11_ProcessedOnce ==
  \A c \in Chats : \A a, b \in DOMAIN filtered[c] :
    a # b => filtered[c][a] # filtered[c][b]

\* C12: a message that was among a target channel's most recent
\* MESSAGES_LIMIT messages when polling started is never passed to the filter
\* afterwards.
C12_SeededNeverProcessed ==
  [][\A c \in Chats :
       Len(filtered'[c]) > Len(filtered[c]) => Last(filtered'[c]) \notin preexisting[c]]_vars

\* C13: no poll cycle fetches from a target channel whose availability check
\* failed at start-up.
C13_InvalidNeverFetched ==
  \A c \in cycles : c.pc = "fetch" => chatId(c) \notin invalidChats

\* C14: within one poll cycle the new messages of a channel are passed to the
\* filter in ascending date order, whatever order the fetch returned them in:
\* the dates processed so far never decrease, and no message still waiting in
\* the batch is older than one already processed.
C14_AscendingOrder ==
  \A c \in cycles :
    /\ \A a, b \in DOMAIN c.done : a < b => c.done[a] <= c.done[b]
    /\ \A a \in DOMAIN c.done, n \in DOMAIN c.batch : c.done[a] <= c.batch[n].date

\* two messages of one batch with different dates have been processed
C14_Witness ==
  \E c \in cycles : Len(c.done) = 2 /\ c.done[1] < c.done[2]

\* C15: an error while fetching one target channel, or while forwarding one of
\* its messages, leaves isPolling and the interval as they are, and the cycle
\* goes on: with the next channel after a fetch error, with the rest of the
\* batch (or the next channel) after a forward error.
C15_ErrorIsolated ==
  [][\A c \in cycles :
       /\ FetchRejects(c)
            => /\ isPolling' = isPolling
               /\ intervals' = intervals
               /\ pollingInterval' = pollingInterval
               /\ c.i < NumChats
                    => \E d \in cycles' : d.cid = c.cid /\ d.i = c.i + 1 /\ d.pc = "fetch"
       /\ \E userName \in UserNames : ForwardReturns(c, userName, FALSE)
            => /\ isPolling' = isPolling
               /\ intervals' = intervals
               /\ (Len(c.batch) > 1 \/ c.i < NumChats)
                    => \E d \in cycles' :
                         /\ d.cid = c.cid
                         /\ IF Len(c.batch) > 1 THEN d.batch = Tail(c.batch)
                            ELSE d.i = c.i + 1 /\ d.pc = "fetch"]_vars

\* the fetch of the first channel failed, and the same cycle is processing a
\* message of the second while the interval is still armed
C15_Witness ==
  \E c \in cycles :
    /\ c.failed = {config.targetChats[1]}
    /\ c.i = 2
    /\ c.pc = "lookup"
    /\ isPolling
    /\ intervals # {}

\* C20: once stopPolling() has returned (and startPolling was not called
\* again) no poll cycle gets past its guard and no interval is armed.
C20_NoCycleAfterStop ==
  [][stopped => (nextCycle' = nextCycle /\ intervals' \subseteq intervals)]_vars

\* ------------------------------------------------ claims about the monitor
\* an event with text, from a group or a broadcast channel that is a target chat
Qualifies(event) ==
  /\ event.message # <<>>
  /\ event.peerId # <<>>
  /\ \/ event.peerId[1] = "PeerChannel" /\ ("-100" \o event.peerId[2]) \in Chats
     \/ event.peerId[1] = "PeerChat" /\ ("-" \o event.peerId[2]) \in Chats

\* C17: in push mode only an event whose message has text, whose peer is a
\* group or a broadcast channel and whose computed chat id is a target chat
\* gets any further: every other event causes no lookup, no filter call, no
\* forward and no scheduling.
C17_OnlyQualifying ==
  /\ \A n \in DOMAIN eventLog :
        (eventLog[n].lookups + eventLog[n].filtered
           + eventLog[n].forwards + eventLog[n].tasks > 0)
          => Qualifies(eventLog[n].event)
  /\ \A h \in handling : Qualifies(eventLog[h.ev].event)

\* an event with text that does not qualify was delivered to a registered
\* handler and dropped
C17_Witness ==
  \E n \in DOMAIN eventLog :
    /\ eventLog[n].handlers > 0
    /\ eventLog[n].event.message # <<>>
    /\ ~Qualifies(eventLog[n].event)
    /\ eventLog[n].lookups = 0

\* C18: each delivered qualifying event is run through the filter once and
\* forwarded at most once, after any sequence of startMonitoring and
\* stopMonitoring calls.
C18_FilteredOnce ==
  \A n \in DOMAIN eventLog : eventLog[n].filtered <= 1 /\ eventLog[n].forwards <= 1

\* C19: an event delivered after stopMonitoring() has returned (and before any
\* later startMonitoring call) is not filtered, not forwarded and schedules
\* nothing.
C19_NothingAfterStop ==
  \A n \in DOMAIN eventLog :
    eventLog[n].afterStop
      => eventLog[n].filtered = 0 /\ eventLog[n].forwards = 0 /\ eventLog[n].tasks = 0

\* ------------------------------------------------ claims about the start-up
\* C16: neither service starts while the client is not ready.  The wait
\* function waits at most MaxReadyChecks times, calls startPolling /
\* startMonitoring only in a step in which isReady() holds, and otherwise
\* returns after the last wait having started nothing.
C16_StartOnlyWhenReady ==
  [][\A service \in Services :
       /\ waiters'[service].attempts <= MaxReadyChecks
       /\ (waiters[service].pc # "started" /\ waiters'[service].pc = "started") => ready
       /\ (waiters[service].pc # "gaveUp" /\ waiters'[service].pc = "gaveUp")
            => /\ ~ready
               /\ waiters'[service].attempts = MaxReadyChecks
               /\ UNCHANGED <<pollVars, monitorVars>>
       /\ (startCalls' # startCalls \/ monitorStarts' # monitorStarts) => ready]_vars

\* one service was started after it had waited, the other one gave up after
\* its last wait
C16_Witness ==
  \E a, b \in Services :
    /\ waiters[a].pc = "started" /\ waiters[a].attempts > 0
    /\ waiters[b].pc = "gaveUp" /\ waiters[b].attempts = MaxReadyChecks
    /\ Cardinality(startCalls) + Cardinality(monitorStarts) = 1

\* ------------------------------------------------- filterMessage (C24..C27)
\* The claims' own reading of "the trimmed, lower-cased text" and of "is a
\* substring of", written without the operators of the model.
LowerCased(text) ==
  [n \in DOMAIN text |-> IF text[n] = "K" THEN "k" ELSE text[n]]
Trimmed(text) ==
  LET inked == {n \in DOMAIN text : text[n] # " "}
  IN  IF inked = {} THEN <<>>
      ELSE SubSeq(text, CHOOSE n \in inked : \A m \in inked : n <= m,
                        CHOOSE n \in inked : \A m \in inked : m <= n)
Occurs(keyword, text) ==
  \E a, b \in DOMAIN text : SubSeq(text, a, b) = keyword
ElementsOf(list) == {list[n] : n \in DOMAIN list}
CallText == Trimmed(LowerCased(call.text))
Excluded == \E k \in ElementsOf(call.cfg.excludeKeywords) : Occurs(k, CallText)
Included == {k \in ElementsOf(call.cfg.keywords) : Occurs(k, CallText)}
Rejected(result) == ~result.shouldForward /\ result.matchedKeywords = <<>>
\* what the exclude and include rules alone say about the text of the call
ByKeywordRules(result) ==
  /\ result.shouldForward = (~Excluded /\ Included # {})
  /\ ElementsOf(result.matchedKeywords) = IF Excluded THEN {} ELSE Included

\* C24: whenever an exclude keyword is a substring of the trimmed, lower-cased
\* text, filterMessage returns a non-forward verdict with no matched keywords,
\* whatever include keywords the text contains.
C24_ExcludeWins == (verdict # <<>> /\ Excluded) => Rejected(verdict[1])

\* the exclude rule decided a call whose text holds an include keyword too
C24_Witness ==
  /\ verdict # <<>>
  /\ Excluded
  /\ Included # {}
  /\ verdict[1].reason = "Contains exclude keywords"

\* C25: with minMessageLength set, every text whose trimmed length is below
\* it gets a non-forward verdict, and a text whose trimmed length equals it
\* gets the verdict of the exclude and include rules alone.  The length is
\* that of the trimmed, lower-cased text, which the code measures.
C25_MinimumLength ==
  (verdict # <<>> /\ call.cfg.minMessageLength > 0) =>
    /\ Len(CallText) < call.cfg.minMessageLength => Rejected(verdict[1])
    /\ Len(CallText) = call.cfg.minMessageLength => ByKeywordRules(verdict[1])

\* a text of exactly the minimum length with a keyword in it was forwarded
C25_Witness ==
  /\ verdict # <<>>
  /\ call.cfg.minMessageLength > 0
  /\ Len(CallText) = call.cfg.minMessageLength
  /\ verdict[1].shouldForward

\* C26: when neither the empty-text, the minimum-length nor the exclude rule
\* applies, filterMessage forwards exactly when some policy keyword is a
\* substring of the trimmed, lower-cased text, and matchedKeywords holds
\* exactly the policy keywords that are; with none it does not forward and
\* the list is empty.
C26_IncludeRule ==
  ( /\ verdict # <<>>
    /\ Trimmed(call.text) # <<>>
    /\ ~(call.cfg.minMessageLength > 0
           /\ Len(CallText) < call.cfg.minMessageLength)
    /\ ~Excluded ) =>
       /\ verdict[1].shouldForward = (Included # {})
       /\ ElementsOf(verdict[1].matchedKeywords) = Included
       /\ Included = {} => verdict[1].matchedKeywords = <<>>

\* a text typed with a capital letter matched a keyword, and another keyword
\* of the policy did not match
C26_Witness ==
  /\ verdict # <<>>
  /\ verdict[1].shouldForward
  /\ call.text # LowerCased(call.text)
  /\ Included # {}
  /\ Included # ElementsOf(call.cfg.keywords)

\* C27: a repeated call returns the verdict of the call before it, and a
\* call with the keyword list or the exclude list permuted returns the same
\* forward decision and the same set of matched keywords.
C27_OrderIndependent ==
  [][/\ (verdict # <<>> /\ verdict' # <<>>) => verdict' = verdict
     /\ (verdict' # <<>> /\ permuted' # <<>>) =>
          /\ permuted'[1].shouldForward = verdict'[1].shouldForward
          /\ ElementsOf(permuted'[1].matchedKeywords)
               = ElementsOf(verdict'[1].matchedKeywords)]_vars

\* both orders of a two-keyword policy were tried on a text holding both
C27_Witness ==
  /\ verdict # <<>>
  /\ permuted # <<>>
  /\ Cardinality(Included) = 2
  /\ verdict[1].shouldForward
  /\ permuted[1].matchedKeywords # verdict[1].matchedKeywords

\* ---------------------------------------------------- getMonitoringConfig
\* C29: every MonitoringConfig that getMonitoringConfig returns has a
\* non-empty targetChats list, a non-empty keywords list and a non-empty
\* targetChatId; an environment that would yield an empty one makes the call
\* throw.
C29_LoadedConfigComplete ==
  (loaded # <<>> /\ loaded[1].ok) =>
    /\ loaded[1].config.targetChats # <<>>
    /\ loaded[1].config.keywords # <<>>
    /\ loaded[1].config.targetChatId # <<>>

\* ------------------------------------------------------ poll mode (C28, C30)
\* Every id that start-up seeded or a cycle marked as processed for the chat
\* with index i: the Set objects only grow, and these are all there are.
Marked(i) == sets[i] \cup UNION {sets[NumChats * cid + i] : cid \in 1..MaxCycles}
\* the ids of the text messages that a fetch of chat returns
FetchedTextIds(chat) ==
  {Window(chat, MESSAGES_LIMIT)[n].id :
     n \in {m \in DOMAIN Window(chat, MESSAGES_LIMIT) :
              Window(chat, MESSAGES_LIMIT)[m].message # <<>>}}

BatchIds(c) == {c.batch[n].id : n \in DOMAIN c.batch}

\* C30: within a poll cycle an id is added to the processed set once, in the
\* step that completes the processing of its message (the filter has run and,
\* on a match, the forward attempt has returned), and a send is made only for
\* a message of a batch, which the fetch built from the ids it found not to
\* be in the set.
C30_MarkedAfterProcessing ==
  [][/\ \A c \in cycles, d \in cycles' :
          (c.pc = "fetch" /\ d.cid = c.cid /\ d.pc = "lookup")
            => BatchIds(d) \cap sets'[d.processedSet] = {}
     /\ \A k \in DOMAIN sets :
          (sets'[k] # sets[k] /\ startCalls' = startCalls) =>
            \E c \in cycles :
              LET id == Head(c.batch).id
              IN  /\ c.processedSet = k
                  /\ sets'[k] = sets[k] \cup {id}
                  /\ \/ c.pc = "forward"
                     \/ /\ c.pc = "lookup"
                        /\ ~filterMessage(Head(c.batch).message, config).shouldForward
                  /\ \E n \in DOMAIN filtered'[chatId(c)] : filtered'[chatId(c)][n] = id
                  /\ \A d \in cycles' : d.cid = c.cid => id \notin BatchIds(d)
     /\ \A chat \in Chats :
          forwards'[chat] # forwards[chat] =>
            \E c \in cycles :
              /\ c.pc = "forward"
              /\ chatId(c) = chat
              /\ forwards'[chat] = Append(forwards[chat], Head(c.batch).id)
              /\ Head(c.batch).id \in sets'[c.processedSet]]_vars

\* a cycle has worked through a batch of two messages: the first was
\* forwarded and marked, the second is still to be processed and not marked
C30_Witness ==
  \E c \in cycles :
    /\ Len(c.batch) = 1
    /\ Len(c.done) = 1
    /\ Head(c.batch).id \notin sets[c.processedSet]
    /\ \E id \in sets[c.processedSet] :
         \E n \in DOMAIN forwards[chatId(c)] : forwards[chatId(c)][n] = id

\* C21: poll mode has the downstream effects of push mode: when the forward
\* of a matching message to targetChatId has gone out, delayedMessagesEnabled
\* is true and the sender was identified, a delayed task for the sender is
\* scheduled (the scheduler hands out the next task id).
C21_PollSchedulesTask ==
  [][\A c \in cycles :
       (ForwardReturns(c, "S1", TRUE) /\ config.delayedMessagesEnabled)
         => nextId' = nextId + 1]_vars

\* ------------------------------------------------------ push mode (C22, C23)
\* C23: a failed lookup of the chat or of the sender does not end the
\* processing of a qualifying message: the call still runs the filter and,
\* on a match, goes on to forward the message.
C23_LookupFailureTolerated ==
  [][\A h \in handling, outcome \in {"chatFailed", "userFailed"} :
       LookupReturns(h, outcome) =>
         /\ eventLog'[h.ev].filtered = eventLog[h.ev].filtered + 1
         /\ filterMessage(eventLog[h.ev].event.message, config).shouldForward
              => \E g \in handling' :
                   g.ev = h.ev /\ g.handler = h.handler /\ g.pc = "forward"]_vars

\* C22: in push mode the return of forwardMessage schedules a delayed task
\* exactly when the send to targetChatId went out, delayedMessagesEnabled is
\* true and the sender was resolved (only a message with a forward verdict is
\* forwarded); the task is addressed to the sender's id and due after
\* defaultDelayMinutes; nothing else schedules a task, and no message gets
\* more than one.
C22_OneTaskPerForward ==
  [][/\ \A h \in handling :
          (h.pc = "forward" /\ h \notin handling') =>
            LET sent == eventLog'[h.ev].forwards = eventLog[h.ev].forwards + 1
                scheduled == nextId' = nextId + 1
            IN  /\ scheduled = (sent /\ config.delayedMessagesEnabled /\ h.userId # "")
                /\ scheduled =>
                     /\ heap'[nextId].targetUserId = h.userId
                     /\ heap'[nextId].scheduledTime
                          = now + config.defaultDelayMinutes * MsPerMinute
                     /\ eventLog'[h.ev].tasks = eventLog[h.ev].tasks + 1
     /\ nextId' # nextId => \E h \in handling : h.pc = "forward" /\ h \notin handling'
     /\ \A n \in DOMAIN eventLog' : eventLog'[n].tasks <= 1]_vars

\* ------------------------------------------- the scheduler again (C31..C37)
\* A step of executeDelayedMessage(i) (its timer fires, its send or its log
\* notification returns) or a call of cancelDelayedMessage(i).
ExecutionStep(i) ==
  \/ \E t \in armed : t.id = i /\ TimerFires(t)
  \/ \E e \in execs : e.id = i /\ (SendResolves(e) \/ SendRejects(e) \/ LogReturns(e))
CancelStep(i) == \E r \in BOOLEAN : cancelDelayedMessage(i, r)

\* C31: a step of the scheduler's own execution takes a task out of the live
\* table only when its status is sent or failed, and a task whose send failed
\* with attempts < maxAttempts is still returned by getTask and
\* getPendingMessages when that execution is over; a pending task leaves the
\* table only by cancelDelayedMessage.
C31_RemovedOnlyTerminal ==
  [][\A i \in pendingMessages :
       /\ (ExecutionStep(i) /\ i \notin pendingMessages')
            => heap'[i].status \in Terminal
       /\ (ExecutionFailed(i) /\ heap'[i].attempts < heap'[i].maxAttempts)
            => i \in pendingMessages'
       /\ (i \notin pendingMessages' /\ heap'[i].status = "pending")
            => CancelStep(i)]_vars

\* the only send of a task failed, its execution is over, and the query API
\* still returns it
C31_Witness ==
  \E i \in Created :
    /\ sends[i] = <<"fail">>
    /\ ~InFlight(i)
    /\ i \in getPendingMessages
    /\ getTask(i) = <<i>>
    /\ heap[i].status = "pending"

\* C32: no step changes a task's recipient, originating channel, payload,
\* scheduledTime, maxAttempts or snapshot of the originating message: only
\* attempts and status ever differ from what scheduleDelayedMessage stored.
C32_OnlyAttemptsAndStatus ==
  [][\A i \in Created :
       heap'[i] = [heap[i] EXCEPT !.attempts = heap'[i].attempts,
                                  !.status = heap'[i].status]]_vars

\* a task after a failed execution: attempts counted, the rest as scheduled
C32_Witness ==
  \E i \in Created :
    /\ heap[i].attempts = 1
    /\ sends[i] = <<"fail">>
    /\ ~InFlight(i)
    /\ heap[i].scheduledTime <= now
    /\ heap[i].targetUserId \in Users

\* C33: a step of executeDelayedMessage(i) or cancelDelayedMessage(i) leaves
\* every other task as it is: its fields, its place in the live table, its
\* entry in the timer table and its armed timers.
C33_OtherTasksUntouched ==
  [][\A i \in TaskIds :
       (ExecutionStep(i) \/ CancelStep(i)) =>
         \A j \in Created \ {i} :
           /\ heap'[j] = heap[j]
           /\ (j \in pendingMessages') = (j \in pendingMessages)
           /\ (j \in DOMAIN timers') = (j \in DOMAIN timers)
           /\ j \in DOMAIN timers => timers'[j] = timers[j]
           /\ {t \in armed' : t.id = j} = ArmedFor(j)]_vars

\* two tasks: one was cancelled, the timer of the other is still armed
C33_Witness ==
  \E i, j \in Created :
    /\ i # j
    /\ i \in cancelled
    /\ ArmedFor(j) # {}
    /\ j \in DOMAIN timers

\* C35: every task in the live table has status pending, so getTask and
\* getPendingMessages never return a task that is sent or failed.
C35_LiveIsPending ==
  \A i \in getPendingMessages : heap[i].status = "pending"

\* C36: once a send for a task has succeeded, no further send attempt for it
\* is started: a successful send is the last entry of the task's attempts.
C36_DeliveredOnce ==
  \A i \in Created :
    \A n \in DOMAIN sends[i] : sends[i][n] = "ok" => n = Len(sends[i])

\* a delivered task whose execution is over and whose time has long come
C36_Witness ==
  \E i \in Created :
    /\ sends[i] = <<"ok">>
    /\ ~InFlight(i)
    /\ ArmedFor(i) = {}
    /\ now > heap[i].scheduledTime

\* C37: for every task 0 <= attempts <= maxAttempts, and attempts is the
\* number of send attempts started for it.
C37_AttemptsCounted ==
  \A i \in Created :
    /\ 0 <= heap[i].attempts
    /\ heap[i].attempts <= heap[i].maxAttempts
    /\ heap[i].attempts = Len(sends[i])

\* an attempt is under way and counted
C37_Witness ==
  \E i \in Created : sends[i] = <<"?">> /\ heap[i].attempts = 1 /\ InFlight(i)

\* --------------------------------------------- the poller again (C34..C40)
\* C39: at most one polling interval is armed at any time, and none is armed
\* when stopPolling was the last call of startPolling and stopPolling.
C39_OneInterval ==
  /\ Cardinality(intervals) <= 1
  /\ stopped => intervals = {}

\* The Set that the Map holds for a chat, as its ids (empty without an entry).
ProcessedIds(chat) ==
  IF processedMessages[chat] = 0 THEN {} ELSE sets[processedMessages[chat]]

Times(q, x) == Cardinality({n \in DOMAIN q : q[n] = x})

\* The forwards of message id in the chat that have returned without a send:
\* the times it passed the filter, less its sends, less its forwards under way.
FailedForwards(chat, id) ==
  Times(filtered[chat], id) - Times(forwards[chat], id)
    - Cardinality({c \in cycles : /\ chatId(c) = chat
                                  /\ c.pc = "forward"
                                  /\ Head(c.batch).id = id})

\* C38: when the forward of a matching message returns without a send, the
\* message id is added to the processed set of its cycle all the same, and a
\* message whose forward has failed is not sent by any forward after that.
C38_FailedForwardNotRetried ==
  [][/\ \A c \in cycles :
          (c.pc = "forward" /\ c \notin cycles' /\ forwards' = forwards)
            => Head(c.batch).id \in sets'[c.processedSet]
     /\ \A chat \in Chats :
          Len(forwards'[chat]) > Len(forwards[chat])
            => FailedForwards(chat, Last(forwards'[chat])) = 0]_vars

\* the poller is running: the flag is set and the interval is armed
PollingRuns == isPolling /\ pollingInterval # 0

\* a cycle has fetched message id of the chat: it is in a batch, or it was
\* passed to the filter
Fetched(chat, id) ==
  \/ Times(filtered[chat], id) > 0
  \/ \E c \in cycles : /\ c.pc # "fetch"
                       /\ chatId(c) = chat
                       /\ \E n \in DOMAIN c.batch : c.batch[n].id = id

\* C40: every text message posted to a reachable target channel while the
\* poller runs is passed to the filter.  A fetch returns the MESSAGES_LIMIT
\* most recent messages and the channel only grows, so this needs that no
\* such message is beyond the fetch window before a cycle has fetched it.
C40_FetchedBeforeLeaving ==
  [][\A chat \in Chats \ invalidChats :
       PollingRuns =>
         \A n \in DOMAIN channel'[chat] \ DOMAIN channel[chat] :
           (channel'[chat][n].message # <<>>
              /\ n <= Len(channel'[chat]) - MESSAGES_LIMIT)
             => Fetched(chat, channel'[chat][n].id)]_vars

====
